---- MODULE Spec2Model ----
(***************************************************************************)
(* django-decision: delegated ("liquid democracy") voting.                 *)
(* Model of decision/models.py: Poll.set_vote, the Vote and Delegation     *)
(* tables with their unique_together constraints, the pre_save handler     *)
(* prevent_delegation_to_self and the post_save handler propagate_vote     *)
(* (one INSERT ... WITH RECURSIVE ... SELECT statement).                   *)
(***************************************************************************)
EXTENDS Integers, FiniteSets, Sequences, Bags, TLC

\* ------------------------------------------------------------------ data
Null == "null"

Users == {"A", "B", "C"}
Categories == {"Finance", "Health"}
Polls == {"P1", "P2"}
Choices == {"Yes", "No", "Other"}
NotAChoice == "not_a_choice"

\* Poll.category: P1 belongs to Finance, P2 has no category.
PollCategory(p) == IF p = "P1" THEN "Finance" ELSE Null

\* Choice.poll: Yes and No are choices of P1, Other is the choice of P2.
ChoicePoll(c) == IF c = "Other" THEN "P2" ELSE "P1"

\* Bounds of the exploration: rows of decision_delegation, rows of
\* decision_delegation_categories, and set_vote calls in one behaviour (no
\* operation is explored after the last of them).
MaxDelegations == 3
MaxScopes == 1
MaxCalls == 2
\* Cap on the iterations of one recursive query.
MaxIterations == 6

\* Concurrent callers (connections).
Procs == {1, 2}

VARIABLES
    delegations,  \* table decision_delegation (+ its categories m2m): set of rows
    votes,        \* table decision_vote: bag of rows (the pk is not modelled)
    is_open,      \* Poll.is_open, per poll
    last,         \* how the last set_vote ended, and the call when it saved a Vote
    calls,        \* number of set_vote calls so far
    query,        \* the recursive query of propagate_vote, when evaluated step by step
    inflight      \* the set_vote calls in progress, when calls run concurrently

vars == <<delegations, votes, is_open, last, calls, query, inflight>>

VoteRow(u, p, c, d) == [user |-> u, poll |-> p, choice |-> c, delegate |-> d]
DelegationRow(f, l, cs) == [follower |-> f, leader |-> l, categories |-> cs]

\* ------------------------------------------------------------ vote table
\* Rows of table V for one (user, poll), and their number (SELECT COUNT).
VotesOf(V, u, p) == {r \in DOMAIN V : r.user = u /\ r.poll = p}

VoteCount(V, u, p) ==
    LET rows == VotesOf(V, u, p)
    IN  IF rows = {} THEN 0 ELSE BagCardinality([r \in rows |-> V[r]])

\* unique_together = ('user', 'poll'): would adding the bag of rows New to
\* table V leave two rows with the same (user, poll)?
UniqueViolation(V, New) ==
    LET all == V (+) New
    IN  \E r \in BagToSet(all) : VoteCount(all, r.user, r.poll) > 1

\* self.votes.get(user=user)
GetVote(V, u, p) ==
    CASE VoteCount(V, u, p) = 0 -> [found |-> "DoesNotExist"]
      [] VoteCount(V, u, p) = 1 -> [found |-> "one",
                                    row |-> CHOOSE r \in VotesOf(V, u, p) : TRUE]
      [] OTHER -> [found |-> "MultipleObjectsReturned"]

\* ------------------------------------------------------ propagate_vote
\* Mutant: the branch for a poll without category drops its test.
ExtraConditionUnscoped(d, p) ==
    IF PollCategory(p) # Null
    THEN d.categories = {} \/ PollCategory(p) \in d.categories
    ELSE TRUE

\* extra_condition: is delegation d followed for poll p?
ExtraCondition(d, p) ==
    IF PollCategory(p) # Null
    THEN d.categories = {} \/ PollCategory(p) \in d.categories
    ELSE Cardinality(d.categories) < 1

\* Mutant: the recursive term does not hand on dlg_poll_id; a follower gets
\* the choice on every poll.
RecursiveTermEveryPoll(Work, V, D) ==
    { VoteRow(x[1].follower, q, x[2].choice, x[1].leader) :
        x \in { y \in D \X Work :
                  /\ y[1].leader = y[2].user
                  /\ ExtraCondition(y[1], y[2].poll)
                  /\ VoteCount(V, y[1].follower, y[2].poll) < 1 },
        q \in Polls }

\* Mutant: the recursive term hands on the delegate of the row it joins
\* instead of the leader of the delegation.
RecursiveTermDelegateCopied(Work, V, D) ==
    { VoteRow(x[1].follower, x[2].poll, x[2].choice,
              IF x[2].delegate = Null THEN x[1].leader ELSE x[2].delegate) :
        x \in { y \in D \X Work :
                  /\ y[1].leader = y[2].user
                  /\ ExtraCondition(y[1], y[2].poll)
                  /\ VoteCount(V, y[1].follower, y[2].poll) < 1 } }

\* The recursive term of the query, evaluated with the working table Work
\* standing for dlg; the vote table V is the statement's snapshot.
RecursiveTerm(Work, V, D) ==
    { VoteRow(x[1].follower, x[2].poll, x[2].choice, x[1].leader) :
        x \in { y \in D \X Work :
                  /\ y[1].leader = y[2].user
                  /\ ExtraCondition(y[1], y[2].poll)
                  /\ VoteCount(V, y[1].follower, y[2].poll) < 1 } }

\* Mutant: UNION ALL, rows already in the result are produced again.
NewRowsUnionAll(Acc, Work, V, D) == RecursiveTerm(Work, V, D)

\* One iteration of WITH RECURSIVE ... UNION: the rows of the recursive term
\* that are not yet in the result.
NewRows(Acc, Work, V, D) == RecursiveTerm(Work, V, D) \ Acc

\* Mutant: the query is not recursive, only the caller's own followers.
EvaluateOneLevel(Acc, Work, V, D) == Acc \cup NewRows(Acc, Work, V, D)

RECURSIVE Evaluate(_, _, _, _)
Evaluate(Acc, Work, V, D) ==
    IF Work = {} THEN Acc
    ELSE LET new == NewRows(Acc, Work, V, D)
         IN  Evaluate(Acc \cup new, new, V, D)

\* VALUES(user_id, poll_id, choice_id, null)
Seed(instance) == VoteRow(instance.user, instance.poll, instance.choice, Null)

\* Mutant: the "has no vote yet" test sits in the outer SELECT instead of the
\* recursive term, so chains are followed through users who already voted.
RecursiveTermAll(Work, D) ==
    { VoteRow(x[1].follower, x[2].poll, x[2].choice, x[1].leader) :
        x \in { y \in D \X Work :
                  y[1].leader = y[2].user /\ ExtraCondition(y[1], y[2].poll) } }

RECURSIVE EvaluateAll(_, _, _)
EvaluateAll(Acc, Work, D) ==
    IF Work = {} THEN Acc
    ELSE EvaluateAll(Acc \cup RecursiveTermAll(Work, D),
                     RecursiveTermAll(Work, D) \ Acc, D)

WriteSetTestOutside(instance, V, D) ==
    { r \in EvaluateAll({Seed(instance)}, {Seed(instance)}, D) :
        r.user # instance.user /\ VoteCount(V, r.user, r.poll) < 1 }

\* Mutant: the outer SELECT has no WHERE clause.
SelectRowsAll(Dlg, instance) == Dlg

\* SELECT ... FROM dlg WHERE dlg_user_id != instance.user_id
SelectRows(Dlg, instance) == { r \in Dlg : r.user # instance.user }

\* The rows the statement inserts.
WriteSet(instance, V, D) ==
    SelectRows(Evaluate({Seed(instance)}, {Seed(instance)}, V, D), instance)

\* Mutant: the table has no unique constraint.
InsertVotesUnconstrained(V, Rows) ==
    [result |-> "ok", votes |-> V (+) SetToBag(Rows)]

\* INSERT INTO decision_vote ...: the statement inserts all its rows or, on a
\* unique-constraint violation, none (IntegrityError).
InsertVotes(V, Rows) ==
    IF UniqueViolation(V, SetToBag(Rows))
    THEN [result |-> "IntegrityError", votes |-> V]
    ELSE [result |-> "ok", votes |-> V (+) SetToBag(Rows)]

\* Mutant: the handler follows every delegation in scope and overwrites the
\* Vote of each user it reaches, the root's excepted.
PropagateVoteOverwrite(instance, V, D) ==
    LET reached == SelectRows(EvaluateAll({Seed(instance)}, {Seed(instance)}, D), instance)
        users == {r.user : r \in reached}
        kept == {r \in DOMAIN V : ~(r.poll = instance.poll /\ r.user \in users)}
        row(u) == CHOOSE r \in reached : r.user = u
    IN  [result |-> "ok",
         votes |-> [r \in kept |-> V[r]] (+) SetToBag({row(u) : u \in users})]

\* post_save handler of Vote.
PropagateVote(instance, V, D) == InsertVotes(V, WriteSet(instance, V, D))

\* ------------------------------------------------------------ set_vote
\* Delegation.objects.get(Q(categories=None) | Q(categories=self.category),
\*                        leader=delegate, follower=user):
\* the rows of decision_delegation LEFT OUTER JOIN decision_delegation_categories
\* that pass the filter; a delegation without categories joins one row whose
\* category is NULL, and categories=None (also when self.category is None)
\* compiles to IS NULL.
\* Mutant: an inner join, which drops the delegations without categories.
JoinedCategoriesInner(d) == d.categories

JoinedCategories(d) == IF d.categories = {} THEN {Null} ELSE d.categories

AuthorizationRows(D, p, u, dg) ==
    { x \in UNION { {<<d, c>> : c \in JoinedCategories(d)} : d \in D } :
        /\ x[1].leader = dg
        /\ x[1].follower = u
        /\ (x[2] = Null \/ x[2] = PollCategory(p)) }

\* Mutant: set_vote accepts a Choice of any poll.
ValidateAnyChoice(D, open, p, u, c, dg, secure) ==
    IF ~open[p] THEN "PollClosed"
    ELSE IF c \notin Choices THEN "InvalidChoice"
    ELSE IF secure /\ dg # Null
         THEN LET n == Cardinality(AuthorizationRows(D, p, u, dg))
              IN  IF n = 0 THEN "NotAuthorized"
                  ELSE IF n > 1 THEN "MultipleObjectsReturned"
                  ELSE "pass"
    ELSE "pass"

\* Mutant: set_vote does not look at is_open.
ValidateIgnoresClosed(D, open, p, u, c, dg, secure) ==
    IF c \notin Choices \/ ChoicePoll(c) # p THEN "InvalidChoice"
    ELSE IF secure /\ dg # Null
         THEN LET n == Cardinality(AuthorizationRows(D, p, u, dg))
              IN  IF n = 0 THEN "NotAuthorized"
                  ELSE IF n > 1 THEN "MultipleObjectsReturned"
                  ELSE "pass"
    ELSE "pass"

\* The checks of set_vote before it reads the vote table: "pass" or the
\* exception raised.
Validate(D, open, p, u, c, dg, secure) ==
    IF ~open[p] THEN "PollClosed"
    ELSE IF c \notin Choices \/ ChoicePoll(c) # p THEN "InvalidChoice"
    ELSE IF secure /\ dg # Null
         THEN LET n == Cardinality(AuthorizationRows(D, p, u, dg))
              IN  IF n = 0 THEN "NotAuthorized"
                  ELSE IF n > 1 THEN "MultipleObjectsReturned"
                  ELSE "pass"
    ELSE "pass"

Failure(V, res) == [result |-> res, votes |-> V]

\* Mutant: the overwrite branch has no test of the existing delegate.
SaveVoteUnprotected(V, p, u, c, dg, secure) ==
    IF VoteCount(V, u, p) = 0
    THEN [result |-> "saved", votes |-> V (+) SetToBag({VoteRow(u, p, c, dg)})]
    ELSE [result |-> "saved",
          votes |-> (V (-) SetToBag(VotesOf(V, u, p))) (+) SetToBag({VoteRow(u, p, c, dg)})]

\* Mutant: the test of the existing delegate is inverted (is not None).
SaveVoteProtectsInherited(V, p, u, c, dg, secure) ==
    IF VoteCount(V, u, p) = 0
    THEN [result |-> "saved", votes |-> V (+) SetToBag({VoteRow(u, p, c, dg)})]
    ELSE IF secure /\ dg # Null /\ (\E r \in VotesOf(V, u, p) : r.delegate # Null)
    THEN [result |-> "DirectVoteProtected", votes |-> V]
    ELSE [result |-> "saved",
          votes |-> (V (-) SetToBag(VotesOf(V, u, p))) (+) SetToBag({VoteRow(u, p, c, dg)})]

\* The get / create / overwrite part of set_vote, up to the row's save:
\* the vote table with the caller's row written, or the exception raised.
SaveVote(V, p, u, c, dg, secure) ==
    LET got == GetVote(V, u, p)
        new == VoteRow(u, p, c, dg)
    IN  IF got.found = "DoesNotExist"
        THEN [result |-> "saved", votes |-> V (+) SetToBag({new})]
        ELSE IF got.found = "MultipleObjectsReturned"
        THEN Failure(V, "MultipleObjectsReturned")
        ELSE IF secure /\ dg # Null /\ got.row.delegate = Null
        THEN Failure(V, "DirectVoteProtected")
        ELSE [result |-> "saved",
              votes |-> (V (-) SetToBag({got.row})) (+) SetToBag({new})]

\* Poll.set_vote(user, choice, delegate, secure) on poll p, with the post_save
\* handler that create() and save() run.  Model.save commits the row before
\* the signal is sent and set_vote opens no transaction around the two, so an
\* exception of the handler leaves the caller's row written.
SetVoteOutcome(V, D, open, p, u, c, dg, secure) ==
    LET checked == Validate(D, open, p, u, c, dg, secure)
        saved == SaveVote(V, p, u, c, dg, secure)
    IN  IF checked # "pass" THEN Failure(V, checked)
        ELSE IF saved.result # "saved" THEN saved
        ELSE PropagateVote(VoteRow(u, p, c, dg), saved.votes, D)

\* ---------------------------------------------------------- delegations
\* Mutant: no pre_save handler is connected.
SaveDelegationUnchecked(D, f, l) ==
    IF \E d \in D : d.leader = l /\ d.follower = f
    THEN [result |-> "IntegrityError", delegations |-> D]
    ELSE [result |-> "ok", delegations |-> D \cup {DelegationRow(f, l, {})}]

\* Delegation(follower=f, leader=l).save(): the pre_save handler
\* prevent_delegation_to_self, then the insert under
\* unique_together = ('leader', 'follower').
SaveDelegation(D, f, l) ==
    IF l = f THEN [result |-> "CantDelegateToSelf", delegations |-> D]
    ELSE IF \E d \in D : d.leader = l /\ d.follower = f
    THEN [result |-> "IntegrityError", delegations |-> D]
    ELSE [result |-> "ok", delegations |-> D \cup {DelegationRow(f, l, {})}]

\* d.leader = l; d.save() on the stored Delegation d: the same handler, then
\* the update under the same constraint.
UpdateDelegation(D, d, l) ==
    IF l = d.follower THEN [result |-> "CantDelegateToSelf", delegations |-> D]
    ELSE IF \E e \in D \ {d} : e.leader = l /\ e.follower = d.follower
    THEN [result |-> "IntegrityError", delegations |-> D]
    ELSE [result |-> "ok",
          delegations |-> (D \ {d}) \cup {DelegationRow(d.follower, l, d.categories)}]

\* Rows of decision_delegation_categories.
CategoryLinks(D) ==
    UNION { {<<d.follower, d.leader, c>> : c \in d.categories} : d \in D }

\* --------------------------------------------------------------- actions
NoCall == [op |-> "none", result |-> "ok"]

NoQuery == [state |-> "idle"]
Idle == [pc |-> "idle"]

Init ==
    /\ delegations = {}
    /\ votes = EmptyBag
    /\ is_open = [p \in Polls |-> TRUE]
    /\ last = NoCall
    /\ calls = 0
    /\ query = NoQuery
    /\ inflight = [i \in Procs |-> Idle]

\* One call of set_vote, run to its end.
SetVote(p, u, c, dg, secure) ==
    /\ calls < MaxCalls
    /\ \E out \in {SetVoteOutcome(votes, delegations, is_open, p, u, c, dg, secure)} :
           /\ votes' = out.votes
           /\ last' = IF out.result \in {"ok", "IntegrityError"}
                       THEN [op |-> "set_vote", result |-> out.result,
                             user |-> u, poll |-> p]
                       ELSE [op |-> "set_vote", result |-> out.result]
    /\ calls' = calls + 1
    /\ UNCHANGED <<delegations, is_open, query, inflight>>

CreateDelegation(f, l) ==
    /\ calls < MaxCalls
    /\ Cardinality(delegations) < MaxDelegations
    /\ delegations' = SaveDelegation(delegations, f, l).delegations
    /\ UNCHANGED <<votes, is_open, last, calls, query, inflight>>

\* delegation.categories.add(cat)
AddCategory(d, cat) ==
    /\ calls < MaxCalls
    /\ d \in delegations
    /\ cat \notin d.categories
    /\ Cardinality(CategoryLinks(delegations)) < MaxScopes
    /\ delegations' = (delegations \ {d})
                        \cup {DelegationRow(d.follower, d.leader, d.categories \cup {cat})}
    /\ UNCHANGED <<votes, is_open, last, calls, query, inflight>>

Next ==
    \/ \E p \in Polls, u \in Users, c \in Choices \cup {NotAChoice},
          dg \in Users \cup {Null}, secure \in BOOLEAN :
            SetVote(p, u, c, dg, secure)
    \/ \E f \in Users, l \in Users : CreateDelegation(f, l)
    \/ \E d \in delegations, cat \in Categories : AddCategory(d, cat)

Spec == Init /\ [][Next]_vars

\* ------------------------------------------- polls that open and close
\* poll.is_open = b; poll.save()
SetOpen(p, b) ==
    /\ calls < MaxCalls
    /\ is_open[p] # b
    /\ is_open' = [is_open EXCEPT ![p] = b]
    /\ UNCHANGED <<delegations, votes, last, calls, query, inflight>>

NextPolls ==
    \/ \E p \in Polls, u \in Users, c \in Choices \cup {NotAChoice},
          dg \in Users \cup {Null}, secure \in BOOLEAN :
            SetVote(p, u, c, dg, secure)
    \/ \E f \in Users, l \in Users : CreateDelegation(f, l)
    \/ \E p \in Polls, b \in BOOLEAN : SetOpen(p, b)

SpecPolls == Init /\ [][NextPolls]_vars

\* ------------------------------------ saving delegations, with the result
\* Delegation.objects.create(follower=f, leader=l), and how it ended.
CreateDelegationCall(f, l) ==
    /\ calls < MaxCalls
    /\ Cardinality(delegations) < MaxDelegations
    /\ \E out \in {SaveDelegation(delegations, f, l)} :
           /\ delegations' = out.delegations
           /\ last' = [op |-> "create_delegation", result |-> out.result]
    /\ UNCHANGED <<votes, is_open, calls, query, inflight>>

\* A stored Delegation gets another leader and is saved, and how it ended.
ChangeLeaderCall(d, l) ==
    /\ calls < MaxCalls
    /\ d \in delegations
    /\ l # d.leader
    /\ \E out \in {UpdateDelegation(delegations, d, l)} :
           /\ delegations' = out.delegations
           /\ last' = [op |-> "save_delegation", result |-> out.result]
    /\ UNCHANGED <<votes, is_open, calls, query, inflight>>

NextDelegations ==
    \/ \E p \in Polls, u \in Users, c \in Choices \cup {NotAChoice},
          dg \in Users \cup {Null}, secure \in BOOLEAN :
            SetVote(p, u, c, dg, secure)
    \/ \E f \in Users, l \in Users : CreateDelegationCall(f, l)
    \/ \E d \in delegations, l \in Users : ChangeLeaderCall(d, l)

SpecDelegations == Init /\ [][NextDelegations]_vars

\* ----------------------------------- the recursive query, step by step
\* set_vote up to the save of the caller's Vote; the post_save handler then
\* starts its statement on a snapshot of the two tables.
BeginSetVote(p, u, c, dg, secure) ==
    /\ calls < MaxCalls
    /\ query.state # "running"
    /\ \E checked \in {Validate(delegations, is_open, p, u, c, dg, secure)},
          saved \in {SaveVote(votes, p, u, c, dg, secure)} :
           IF checked # "pass"
           THEN /\ last' = [op |-> "set_vote", result |-> checked]
                /\ UNCHANGED <<votes, query>>
           ELSE IF saved.result # "saved"
           THEN /\ last' = [op |-> "set_vote", result |-> saved.result]
                /\ UNCHANGED <<votes, query>>
           ELSE /\ votes' = saved.votes
                /\ query' = [state |-> "running",
                             instance |-> VoteRow(u, p, c, dg),
                             D |-> delegations,
                             V |-> saved.votes,
                             acc |-> {Seed(VoteRow(u, p, c, dg))},
                             work |-> {Seed(VoteRow(u, p, c, dg))},
                             iters |-> 0]
                /\ UNCHANGED last
    /\ calls' = calls + 1
    /\ UNCHANGED <<delegations, is_open, inflight>>

\* One iteration: the recursive term over the working table; its new rows
\* join the result and become the next working table.
QueryStep ==
    /\ query.state = "running"
    /\ query.work # {}
    /\ query.iters < MaxIterations
    /\ \E new \in {NewRows(query.acc, query.work, query.V, query.D)} :
           query' = [query EXCEPT !.acc = query.acc \cup new,
                                  !.work = new,
                                  !.iters = query.iters + 1]
    /\ UNCHANGED <<delegations, votes, is_open, last, calls, inflight>>

\* The working table is empty: the outer SELECT and the INSERT.
QueryInsert ==
    /\ query.state = "running"
    /\ query.work = {}
    /\ \E out \in {InsertVotes(votes, SelectRows(query.acc, query.instance))} :
           /\ votes' = out.votes
           /\ last' = [op |-> "set_vote", result |-> out.result,
                       user |-> query.instance.user, poll |-> query.instance.poll]
    /\ query' = [query EXCEPT !.state = "done"]
    /\ UNCHANGED <<delegations, is_open, calls, inflight>>

\* The states after one first call: nothing, or one direct vote on P1 cast
\* before any delegation existed.
InitCTE ==
    /\ delegations = {}
    /\ votes \in {EmptyBag} \cup {SetToBag({VoteRow(u, "P1", "No", Null)}) : u \in Users}
    /\ is_open = [p \in Polls |-> TRUE]
    /\ last = NoCall
    /\ calls = 1
    /\ query = NoQuery
    /\ inflight = [i \in Procs |-> Idle]

NextCTE ==
    \/ \E p \in Polls, u \in Users, c \in Choices \cup {NotAChoice},
          dg \in Users \cup {Null}, secure \in BOOLEAN :
            BeginSetVote(p, u, c, dg, secure)
    \/ QueryStep
    \/ QueryInsert
    \/ \E f \in Users, l \in Users : CreateDelegation(f, l)
    \/ \E d \in delegations, cat \in Categories : AddCategory(d, cat)

\* The database runs a statement it has started to its end.
SpecCTE ==
    InitCTE /\ [][NextCTE]_vars /\ WF_vars(QueryStep) /\ WF_vars(QueryInsert)

\* ------------------------------------------- concurrent set_vote calls
\* Each caller runs set_vote on its own connection in autocommit mode: every
\* statement sees what is committed when it runs, and takes effect at once.
\* Validation: the checks of set_vote before the Vote row is looked up.
Begin(i, p, u, c, dg, secure) ==
    /\ inflight[i].pc = "idle"
    /\ \E checked \in {Validate(delegations, is_open, p, u, c, dg, secure)} :
           inflight' = [inflight EXCEPT ![i] =
               IF checked = "pass"
               THEN [pc |-> "get", user |-> u, poll |-> p, choice |-> c,
                     delegate |-> dg, secure |-> secure]
               ELSE [pc |-> "done", reached |-> "validate", result |-> checked]]
    /\ UNCHANGED <<delegations, votes, is_open, last, calls, query>>

\* Vote.objects.get(user=user, poll=self)
Get(i) ==
    /\ inflight[i].pc = "get"
    /\ \E got \in {GetVote(votes, inflight[i].user, inflight[i].poll)} :
           inflight' = [inflight EXCEPT ![i] =
               IF got.found = "MultipleObjectsReturned"
               THEN [pc |-> "done", reached |-> "get", result |-> got.found]
               ELSE [inflight[i] EXCEPT !.pc = "save"] @@ [got |-> got]]
    /\ UNCHANGED <<delegations, votes, is_open, last, calls, query>>

\* Vote.objects.create(...) when no row was read, else the protection of a
\* direct vote and vote.save(), which rewrites the row that was read.
Save(i) ==
    /\ inflight[i].pc = "save"
    /\ LET me == inflight[i]
           new == VoteRow(me.user, me.poll, me.choice, me.delegate)
           created == InsertVotes(votes, {new})
           stop(res) == [pc |-> "done", reached |-> "save", result |-> res]
           go == [pc |-> "select", user |-> me.user, poll |-> me.poll,
                  choice |-> me.choice, delegate |-> me.delegate]
       IN  IF me.got.found = "DoesNotExist"
           THEN IF created.result = "ok"
                THEN votes' = created.votes /\ inflight' = [inflight EXCEPT ![i] = go]
                ELSE votes' = votes
                     /\ inflight' = [inflight EXCEPT ![i] = stop(created.result)]
           ELSE IF me.secure /\ me.delegate # Null /\ me.got.row.delegate = Null
                THEN votes' = votes
                     /\ inflight' = [inflight EXCEPT ![i] = stop("DirectVoteProtected")]
                ELSE votes' = [r \in (DOMAIN votes \ VotesOf(votes, me.user, me.poll))
                                      |-> votes[r]] (+) SetToBag({new})
                     /\ inflight' = [inflight EXCEPT ![i] = go]
    /\ UNCHANGED <<delegations, is_open, last, calls, query>>

\* propagate_vote: the SELECT of the statement, on what is committed now.
Select(i) ==
    /\ inflight[i].pc = "select"
    /\ LET me == inflight[i]
       IN  inflight' = [inflight EXCEPT ![i] =
               [pc |-> "insert", user |-> me.user, poll |-> me.poll,
                rows |-> WriteSet(VoteRow(me.user, me.poll, me.choice, me.delegate),
                                  votes, delegations)]]
    /\ UNCHANGED <<delegations, votes, is_open, last, calls, query>>

\* propagate_vote: the INSERT of the selected rows, checked against the
\* table as it is now.
Insert(i) ==
    /\ inflight[i].pc = "insert"
    /\ \E out \in {InsertVotes(votes, inflight[i].rows)} :
           /\ votes' = out.votes
           /\ inflight' = [inflight EXCEPT ![i] =
                  [pc |-> "done", reached |-> "insert", result |-> out.result,
                   user |-> inflight[i].user, poll |-> inflight[i].poll,
                   rows |-> inflight[i].rows]]
    /\ UNCHANGED <<delegations, is_open, last, calls, query>>

\* Any graph of at most MaxDelegations unscoped delegations, no votes yet.
InitConc ==
    /\ delegations \in {D \in SUBSET {DelegationRow(f, l, {}) :
                                         <<f, l>> \in {x \in Users \X Users : x[1] # x[2]}} :
                            Cardinality(D) <= MaxDelegations}
    /\ votes = EmptyBag
    /\ is_open = [p \in Polls |-> TRUE]
    /\ last = NoCall
    /\ calls = 0
    /\ query = NoQuery
    /\ inflight = [i \in Procs |-> Idle]

NextConc ==
    \/ \E i \in Procs, p \in Polls, u \in Users, c \in Choices,
          dg \in {Null}, secure \in {TRUE} :
            Begin(i, p, u, c, dg, secure)
    \/ \E i \in Procs : Get(i)
    \/ \E i \in Procs : Save(i)
    \/ \E i \in Procs : Select(i)
    \/ \E i \in Procs : Insert(i)

SpecConc == InitConc /\ [][NextConc]_vars

\* ------------------------------------------------------------ vocabulary
\* A user's state on a poll: Direct (delegate = null) or Inherited.
Direct(V, u, p) == \E r \in VotesOf(V, u, p) : r.delegate = Null
Inherited(V, u, p) == \E r \in VotesOf(V, u, p) : r.delegate # Null

\* The rows of (u, p) are the same, with the same multiplicity, in V and W.
SameRows(V, W, u, p) ==
    /\ VotesOf(V, u, p) = VotesOf(W, u, p)
    /\ \A r \in VotesOf(V, u, p) : CopiesIn(r, V) = CopiesIn(r, W)

\* The step is a set_vote call that saved the caller's Vote (and so ran
\* propagate_vote); last' names the caller and the poll.
SavedStep == calls' = calls + 1 /\ last'.result \in {"ok", "IntegrityError"}

\* The scoping rule as the specification words it (data model, Delegation).
ScopeApplies(d, p) ==
    \/ d.categories = {}
    \/ (PollCategory(p) # Null /\ PollCategory(p) \in d.categories)

Follows(D, f, l, p) ==
    \E d \in D : d.follower = f /\ d.leader = l /\ ScopeApplies(d, p)

\* Delegation chains f -> l1 -> ... -> root without repeated users, every
\* edge in scope for p, the follower and every intermediate user without a
\* Vote on p in table V.
UserPaths == UNION { [1..n -> Users] : n \in 2..Cardinality(Users) }

Chains(D, V, f, root, p) ==
    { s \in UserPaths :
        LET n == Cardinality(DOMAIN s)
        IN  /\ s[1] = f
            /\ s[n] = root
            /\ \A i, j \in 1..n : i # j => s[i] # s[j]
            /\ \A i \in 1..(n - 1) :
                  /\ Follows(D, s[i], s[i + 1], p)
                  /\ VoteCount(V, s[i], p) = 0 }

\* ---------------------------------------------------------------- claims
\* C1: after any sequence of set_vote calls, each with its propagate_vote
\* run, every (user, poll) pair has at most one Vote row; a second cast for
\* a pair updates the row and adds none.
C1_OneVotePerUserAndPoll ==
    \A u \in Users, p \in Polls : VoteCount(votes, u, p) <= 1

\* A votes Yes (B and C inherit), then A votes No: A still has one row.
C1_Witness ==
    /\ calls = 2
    /\ last.result = "ok"
    /\ last.user = "A"
    /\ delegations = {DelegationRow("B", "A", {}), DelegationRow("C", "A", {})}
    /\ votes = SetToBag({VoteRow("A", "P1", "No", Null),
                         VoteRow("B", "P1", "Yes", "A"),
                         VoteRow("C", "P1", "Yes", "A")})

\* C2 as stated: once U has a Direct vote on P, the row changes only by a
\* set_vote for U with delegate = None (so it stays Direct).
C2_OnlyDirectResubmissionChanges ==
    [][\A u \in Users, p \in Polls :
          (Direct(votes, u, p) /\ ~SameRows(votes, votes', u, p))
              => /\ SavedStep
                 /\ last'.user = u
                 /\ last'.poll = p
                 /\ Direct(votes', u, p)]_vars

\* C2 amended: once U has a Direct vote on P, no propagate_vote run of
\* another user's call changes the row, and every set_vote for U with
\* secure=True and a delegate fails and leaves the table as it was; the row
\* changes only by a set_vote for U with delegate=None or with secure=False.
C2_DirectVoteProtection ==
    [][\A u \in Users, p \in Polls :
          Direct(votes, u, p)
              => /\ ~SameRows(votes, votes', u, p)
                      => (SavedStep /\ last'.user = u /\ last'.poll = p)
                 /\ \A c \in Choices, dg \in Users :
                      \A out \in {SetVoteOutcome(votes, delegations, is_open,
                                                 p, u, c, dg, TRUE)} :
                          /\ out.result \notin {"ok", "IntegrityError"}
                          /\ out.votes = votes]_vars

\* B has the Direct vote No; the secured delegated call of B's leader A fails.
C2_Witness ==
    /\ calls = 2
    /\ last.result = "DirectVoteProtected"
    /\ DelegationRow("B", "A", {}) \in delegations
    /\ votes = SetToBag({VoteRow("B", "P1", "No", Null)})

\* C3: a user F, other than the caller, who has a Vote on P when a
\* propagate_vote run for P starts keeps it as it is; the run writes no row
\* whose delegate is F; and a user with no chain to the caller through
\* users without a Vote gets no Vote from the run.
C3_Cutoff ==
    [][SavedStep =>
         LET root == last'.user
             p == last'.poll
         IN  /\ \A f \in Users \ {root} :
                   VoteCount(votes, f, p) >= 1
                      => /\ SameRows(votes, votes', f, p)
                         /\ \A r \in DOMAIN votes' :
                              (r.poll = p /\ r.user # root /\ r.delegate = f)
                                 => (r \in DOMAIN votes /\ votes'[r] = votes[r])
             /\ \A g \in Users \ {root} :
                   (VoteCount(votes, g, p) = 0
                      /\ Chains(delegations, votes, g, root, p) = {})
                      => VoteCount(votes', g, p) = 0]_vars

\* B voted No before; A votes Yes: B keeps (No, null) and C, who follows
\* only B, gets nothing.
C3_Witness ==
    /\ calls = 2
    /\ last.result = "ok"
    /\ last.user = "A"
    /\ delegations = {DelegationRow("B", "A", {}), DelegationRow("C", "B", {})}
    /\ votes = SetToBag({VoteRow("B", "P1", "No", Null),
                         VoteRow("A", "P1", "Yes", Null)})

\* C4: a set_vote call that fails leaves the Vote table as it was.
C4_AllOrNothing ==
    [][(calls' = calls + 1 /\ last'.result # "ok") => votes' = votes]_vars

\* C5: after a successful set_vote by root with choice c on P, every other
\* user without a Vote who has a chain to root (edges in scope, intermediates
\* without a Vote) has exactly one Vote on P, with choice c and with one of
\* his immediate leaders on such a chain as delegate.
C5_Closure ==
    [][(SavedStep /\ last'.result = "ok") =>
         LET root == last'.user
             p == last'.poll
         IN  \A f \in Users \ {root} :
                 (VoteCount(votes, f, p) = 0
                    /\ Chains(delegations, votes, f, root, p) # {})
                    => /\ VoteCount(votes', f, p) = 1
                       /\ \A r \in VotesOf(votes', f, p) :
                            /\ \A x \in VotesOf(votes', root, p) : r.choice = x.choice
                            /\ \E s \in Chains(delegations, votes, f, root, p) :
                                 r.delegate = s[2]]_vars

\* B follows A, C follows B; A votes Yes: B(Yes, A) and C(Yes, B).
C5_Witness ==
    /\ calls = 1
    /\ last.result = "ok"
    /\ votes = SetToBag({VoteRow("A", "P1", "Yes", Null),
                         VoteRow("B", "P1", "Yes", "A"),
                         VoteRow("C", "P1", "Yes", "B")})

\* C6: a row a propagate_vote run writes for follower F with delegate L
\* rests on a Delegation F -> L whose category set is empty or contains the
\* poll's category; a Delegation to the caller with an empty category set
\* gives its follower (without a Vote) a Vote in every successful run.
C6_CategoryScoping ==
    [][SavedStep =>
         LET root == last'.user
             p == last'.poll
         IN  /\ \A r \in DOMAIN votes' :
                   (r.poll = p /\ r.user # root /\ r \notin DOMAIN votes)
                      => \E d \in delegations :
                            /\ d.follower = r.user
                            /\ d.leader = r.delegate
                            /\ (d.categories # {} => PollCategory(p) \in d.categories)
             /\ \A d \in delegations :
                   (d.leader = root /\ d.categories = {} /\ last'.result = "ok"
                      /\ VoteCount(votes, d.follower, p) = 0)
                      => VoteCount(votes', d.follower, p) = 1]_vars

\* B follows A for Health only, C follows A for everything; A votes on P1
\* (Finance): C inherits, B does not.
C6_Witness ==
    /\ calls = 1
    /\ last.result = "ok"
    /\ delegations = {DelegationRow("B", "A", {"Health"}), DelegationRow("C", "A", {})}
    /\ votes = SetToBag({VoteRow("A", "P1", "Yes", Null),
                         VoteRow("C", "P1", "Yes", "A")})

\* C9 as stated: no step moves a Vote from Direct to Inherited.
C9_NeverDirectToInherited ==
    [][\A u \in Users, p \in Polls :
          Direct(votes, u, p) => ~Inherited(votes', u, p)]_vars

\* C9 amended: no propagate_vote run and no set_vote with secure=True moves
\* a Vote from Direct to Inherited; a set_vote for the user with
\* secure=False and a delegate does.
C9_SecureNeverDirectToInherited ==
    [][\A u \in Users, p \in Polls :
          Direct(votes, u, p)
              => /\ Inherited(votes', u, p)
                      => (SavedStep /\ last'.user = u /\ last'.poll = p)
                 /\ \A c \in Choices, dg \in Users \cup {Null} :
                      ~Inherited(SaveVote(votes, p, u, c, dg, TRUE).votes, u, p)]_vars

\* B voted No; A, whom B follows, votes Yes: B is still Direct.
C9_Witness ==
    /\ calls = 2
    /\ last.result = "ok"
    /\ last.user = "A"
    /\ delegations = {DelegationRow("B", "A", {})}
    /\ votes = SetToBag({VoteRow("B", "P1", "No", Null),
                         VoteRow("A", "P1", "Yes", Null)})

\* C10: with secure=True and a delegate, set_vote passes the authorization
\* step iff a Delegation delegate <- user exists whose category set is empty
\* or contains the poll's category; a call that fails the step changes no
\* Vote; a call with delegate=None never fails it.
C10_Authorization ==
    \A p \in Polls, u \in Users, c \in Choices :
        (is_open[p] /\ ChoicePoll(c) = p)
            => /\ \A dg \in Users :
                    \A step \in {Validate(delegations, is_open, p, u, c, dg, TRUE)} :
                        /\ (step = "pass")
                             <=> (\E d \in delegations :
                                     /\ d.leader = dg
                                     /\ d.follower = u
                                     /\ (d.categories = {}
                                           \/ PollCategory(p) \in d.categories))
                        /\ step # "pass"
                             => SetVoteOutcome(votes, delegations, is_open,
                                               p, u, c, dg, TRUE)
                                  = Failure(votes, "NotAuthorized")
                        /\ Validate(delegations, is_open, p, u, c, dg, FALSE) = "pass"
               /\ \A secure \in BOOLEAN :
                    Validate(delegations, is_open, p, u, c, Null, secure) = "pass"

\* A secured delegated call was refused although the user has a Delegation:
\* it is scoped to another category than the poll's.
C10_Witness ==
    /\ last.result = "NotAuthorized"
    /\ calls = 1
    /\ \E d \in delegations : d.categories # {}
    /\ votes = EmptyBag

\* C7: propagate_vote terminates on every delegation graph, cycles
\* included, whoever votes: a started query ends, and the iterations that
\* found a new frontier are at most as many as the Delegation rows.
C7_Terminates ==
    /\ [](query.state \in {"running", "done"} =>
            (IF query.work = {} THEN query.iters - 1 ELSE query.iters)
                <= Cardinality(query.D))
    /\ (query.state = "running") ~> (query.state = "done")

\* A votes; B follows A, and B and C follow each other (a cycle without the
\* voter): the query ended after four iterations.
C7_Witness ==
    /\ query.state = "done"
    /\ query.instance.user = "A"
    /\ query.iters = 4
    /\ {<<d.follower, d.leader>> : d \in query.D}
         = {<<"B", "A">>, <<"C", "B">>, <<"B", "C">>}

\* C8: when two concurrent set_vote calls on one poll both selected a row
\* for the same follower, and neither selected two rows for one user, the
\* conflict does no harm: both calls succeed, both root votes are in the
\* table, and every user either call selected has exactly one Vote.
C8_ConflictIsBenign ==
    \A i \in Procs : \A j \in Procs \ {i} :
        (/\ inflight[i].pc = "done" /\ inflight[i].reached = "insert"
         /\ inflight[j].pc = "done" /\ inflight[j].reached = "insert"
         /\ inflight[i].poll = inflight[j].poll
         /\ \A k \in {i, j} : \A r1 \in inflight[k].rows, r2 \in inflight[k].rows :
                r1.user = r2.user => r1 = r2
         /\ \E r1 \in inflight[i].rows, r2 \in inflight[j].rows : r1.user = r2.user)
        =>
            /\ inflight[i].result = "ok"
            /\ VoteCount(votes, inflight[i].user, inflight[i].poll) = 1
            /\ \A r \in inflight[i].rows : VoteCount(votes, r.user, r.poll) = 1

\* C11: a set_vote call with delegate=None on an open poll with a choice of
\* that poll succeeds whatever Vote the user has, and leaves the user with
\* the one row (choice, null); and a row that is Direct is not changed by
\* the propagate_vote run of another user's call.
C11_DirectVoteAlwaysSucceeds ==
    [][/\ \A p \in Polls, u \in Users, c \in Choices, secure \in BOOLEAN :
            (is_open[p] /\ ChoicePoll(c) = p)
               => \A out \in {SetVoteOutcome(votes, delegations, is_open,
                                             p, u, c, Null, secure)} :
                      /\ out.result = "ok"
                      /\ VotesOf(out.votes, u, p) = {VoteRow(u, p, c, Null)}
                      /\ VoteCount(out.votes, u, p) = 1
       /\ \A u \in Users, p \in Polls :
            (Direct(votes, u, p) /\ SavedStep /\ last'.user # u)
               => SameRows(votes, votes', u, p)]_vars

\* C12: while a poll is closed, every set_vote call on it raises PollClosed
\* and writes nothing, and no step (a call on another poll and its
\* propagate_vote run included) creates or changes a Vote of the closed poll.
C12_ClosedPollRefuses ==
    /\ [](\A p \in Polls :
            ~is_open[p]
               => \A u \in Users, c \in Choices \cup {NotAChoice},
                     dg \in Users \cup {Null}, secure \in BOOLEAN :
                       SetVoteOutcome(votes, delegations, is_open, p, u, c, dg, secure)
                          = Failure(votes, "PollClosed"))
    /\ [][\A p \in Polls :
             ~is_open[p] => \A u \in Users : SameRows(votes, votes', u, p)]_vars

\* A voted on P1, then B delegated to A and P1 was closed: the next call on
\* P1 was refused and B has no Vote.
C12_Witness ==
    /\ calls = 2
    /\ last.result = "PollClosed"
    /\ ~is_open["P1"]
    /\ is_open["P2"]
    /\ delegations = {DelegationRow("B", "A", {})}
    /\ votes = SetToBag({VoteRow("A", "P1", "Yes", Null)})

\* C13: saving a Delegation whose follower is its leader, new or stored,
\* raises CantDelegateToSelf and stores nothing, so no Delegation in the
\* table has follower = leader; and no row a propagate_vote run writes
\* names its own user as delegate.
C13_NoSelfDelegation ==
    /\ [](\A d \in delegations : d.follower # d.leader)
    /\ [](/\ \A u \in Users :
               SaveDelegation(delegations, u, u)
                  = [result |-> "CantDelegateToSelf", delegations |-> delegations]
          /\ \A d \in delegations :
               UpdateDelegation(delegations, d, d.follower)
                  = [result |-> "CantDelegateToSelf", delegations |-> delegations])
    /\ [][SavedStep =>
            \A r \in DOMAIN votes' \ DOMAIN votes :
                r.user # last'.user => r.delegate # r.user]_vars

\* After a vote that two followers inherited, a Delegation of a user to
\* himself was refused.
C13_Witness ==
    /\ last = [op |-> "create_delegation", result |-> "CantDelegateToSelf"]
    /\ calls = 1
    /\ delegations = {DelegationRow("B", "A", {}), DelegationRow("C", "B", {})}
    /\ votes = SetToBag({VoteRow("A", "P1", "Yes", Null),
                         VoteRow("B", "P1", "Yes", "A"),
                         VoteRow("C", "P1", "Yes", "B")})

\* C14: the rows one propagate_vote run selects for writing hold at most
\* one row per follower, also for a follower with delegations to two leaders
\* that are both reached, or one reached again around a cycle.
C14_OneRowPerFollower ==
    query.state = "done"
       => \A r1 \in SelectRows(query.acc, query.instance),
             r2 \in SelectRows(query.acc, query.instance) :
               r1.user = r2.user => r1 = r2

\* C15 as stated: a Vote that is Inherited is updated in place by an
\* authorized secured delegated set_vote of its user, and when a leader whose
\* vote was propagated casts another choice, the followers who inherited
\* from him get that choice.
C15_RepropagationUpdates ==
    /\ [](\A u \in Users, p \in Polls, c \in Choices, dg \in Users :
            (Inherited(votes, u, p)
               /\ Validate(delegations, is_open, p, u, c, dg, TRUE) = "pass")
               => VotesOf(SaveVote(votes, p, u, c, dg, TRUE).votes, u, p)
                     = {VoteRow(u, p, c, dg)})
    /\ [][(SavedStep /\ last'.result = "ok") =>
            LET root == last'.user
                p == last'.poll
            IN  \A f \in Users \ {root} :
                    (/\ VoteCount(votes, root, p) = 1
                     /\ Follows(delegations, f, root, p)
                     /\ \E r \in VotesOf(votes, f, p) : r.delegate = root)
                    => \A r \in VotesOf(votes', f, p), x \in VotesOf(votes', root, p) :
                           r.choice = x.choice]_vars

\* C15 amended: a Vote that is Inherited is updated in place, to the choice
\* and delegate given, by every set_vote of its user with secure=True and a
\* delegate that passes the authorization; nothing else changes it: the
\* propagate_vote run of another user's call, the call of the user's own
\* leader with another choice included, leaves the row as it was.
C15_InheritedChangedOnlyBySetVote ==
    /\ [](\A u \in Users, p \in Polls :
            Inherited(votes, u, p)
               => \A c \in Choices, dg \in Users :
                     Validate(delegations, is_open, p, u, c, dg, TRUE) = "pass"
                        => \A out \in {SaveVote(votes, p, u, c, dg, TRUE)} :
                               /\ out.result = "saved"
                               /\ VotesOf(out.votes, u, p) = {VoteRow(u, p, c, dg)}
                               /\ VoteCount(out.votes, u, p) = 1)
    /\ [][votes' # votes =>
            \A u \in Users, p \in Polls :
                (Inherited(votes, u, p) /\ ~SameRows(votes, votes', u, p))
                   => (SavedStep /\ last'.user = u /\ last'.poll = p)]_vars

\* B follows A and inherited Yes; A then voted No: B still holds (Yes, A).
C15_Witness ==
    /\ calls = 2
    /\ last.result = "ok"
    /\ last.user = "A"
    /\ delegations = {DelegationRow("B", "A", {})}
    /\ votes = SetToBag({VoteRow("A", "P1", "No", Null),
                         VoteRow("B", "P1", "Yes", "A")})

\* C16: a propagate_vote run selects no row for the root user for writing,
\* and from the save of set_vote to the end of the run the root has the one
\* row set_vote wrote, with its choice and delegate.
C16_RootNeverWritten ==
    /\ [](query.state = "running"
            => /\ VotesOf(votes, query.instance.user, query.instance.poll)
                    = {query.instance}
               /\ VoteCount(votes, query.instance.user, query.instance.poll) = 1)
    /\ [][(query.state = "running" /\ query'.state = "done")
            => /\ \A r \in SelectRows(query.acc, query.instance) :
                     r.user # query.instance.user
               /\ VotesOf(votes', query.instance.user, query.instance.poll)
                    = {query.instance}
               /\ VoteCount(votes', query.instance.user, query.instance.poll) = 1]_vars

\* A and B follow each other; A voted Yes: B inherited, A's row is (Yes, null).
C16_Witness ==
    /\ query.state = "done"
    /\ query.instance = VoteRow("A", "P1", "Yes", Null)
    /\ query.D = {DelegationRow("A", "B", {}), DelegationRow("B", "A", {})}
    /\ last.result = "ok"
    /\ votes = SetToBag({VoteRow("A", "P1", "Yes", Null),
                         VoteRow("B", "P1", "Yes", "A")})

\* C17: after a successful set_vote, every row (F, c, L) its propagate_vote
\* run wrote has a Delegation with follower F and leader L whose scope
\* covers the poll, and L has a Vote on the same poll with the same choice.
C17_WrittenRowsJustified ==
    [][(SavedStep /\ last'.result = "ok") =>
         \A r \in DOMAIN votes' \ DOMAIN votes :
             r.user # last'.user
                => /\ r.poll = last'.poll
                   /\ Follows(delegations, r.user, r.delegate, r.poll)
                   /\ \E x \in VotesOf(votes', r.delegate, r.poll) :
                         x.choice = r.choice]_vars

\* B follows A for Finance, C follows B; A voted Yes on P1 (Finance).
C17_Witness ==
    /\ calls = 1
    /\ last.result = "ok"
    /\ delegations = {DelegationRow("B", "A", {"Finance"}), DelegationRow("C", "B", {})}
    /\ votes = SetToBag({VoteRow("A", "P1", "Yes", Null),
                         VoteRow("B", "P1", "Yes", "A"),
                         VoteRow("C", "P1", "Yes", "B")})

\* C18: the choice of every Vote row is a choice of the row's poll; a
\* set_vote call on an open poll with anything else than a choice of that
\* poll raises InvalidChoice and writes nothing.
C18_ChoiceBelongsToPoll ==
    /\ \A r \in DOMAIN votes : r.choice \in Choices /\ ChoicePoll(r.choice) = r.poll
    /\ \A p \in Polls, c \in Choices \cup {NotAChoice} :
          (is_open[p] /\ (c = NotAChoice \/ ChoicePoll(c) # p))
             => \A u \in Users, dg \in Users \cup {Null}, secure \in BOOLEAN :
                    SetVoteOutcome(votes, delegations, is_open, p, u, c, dg, secure)
                       = Failure(votes, "InvalidChoice")

\* A voted Yes on P1 and B inherited; then a call with a choice of the other
\* poll was refused.
C18_Witness ==
    /\ calls = 2
    /\ last.result = "InvalidChoice"
    /\ delegations = {DelegationRow("B", "A", {})}
    /\ votes = SetToBag({VoteRow("A", "P1", "Yes", Null),
                         VoteRow("B", "P1", "Yes", "A")})

\* C19: a set_vote call on poll P with its propagate_vote run changes no
\* Delegation and no is_open flag; when it fails before the save it changes
\* no Vote; otherwise it leaves every Vote of the other polls as it was, and
\* within P every user other than the caller who had a Vote keeps it
\* unchanged, so that rows are created only for users who had none.
C19_Frame ==
    [][calls' = calls + 1 =>
         /\ delegations' = delegations
         /\ is_open' = is_open
         /\ IF SavedStep
            THEN \A u \in Users, p \in Polls :
                     (p # last'.poll \/ (u # last'.user /\ VoteCount(votes, u, p) > 0))
                        => SameRows(votes, votes', u, p)
            ELSE votes' = votes]_vars

\* B holds a Vote on P2 and C follows A; A voted on P1: C inherited on P1,
\* and B's row on P2 is as it was.
C19_Witness ==
    /\ calls = 2
    /\ last.result = "ok"
    /\ last.user = "A"
    /\ DelegationRow("C", "A", {}) \in delegations
    /\ votes = SetToBag({VoteRow("B", "P2", "Other", Null),
                         VoteRow("A", "P1", "Yes", Null),
                         VoteRow("C", "P1", "Yes", "A")})

====
